---- MODULE Spec2Model ----
(***************************************************************************)
(* Evolution-cycle segmentation and event-log synthesis of                 *)
(* workflow/scripts/git_analyzer.py (class GitAnalysis):                   *)
(*   extend_repo_info_for_snakemake          (segmentation, SegSpec)       *)
(*   generate_event_logs_for_evolution_cycle (synthesis, SynSpec)          *)
(* SynTieSpec is the synthesis on longer record lists, TimelineSpec the    *)
(* commit order of both methods, BoundarySpec both methods on empty        *)
(* inputs.                                                                 *)
(* Each loop iteration of the two methods is one action; the local         *)
(* variables of a method are the fields of one record variable (seg, syn)  *)
(* that keep the names they have in the source.                            *)
(*                                                                         *)
(* A Python dict is a function (the empty dict is <<>>), a Python list a   *)
(* sequence.  The commit map, a dict with insertion order, is a sequence   *)
(* of commit records that carry their key in the field hash.               *)
(***************************************************************************)
EXTENDS Integers, Sequences, FiniteSets, TLC

VARIABLES
    pc,             \* position of the running call
    error,          \* the exception that escaped the call, "" if none
    commits,        \* argument commits, in the dict's iteration order
    repo_info,      \* argument repo_info of extend_repo_info_for_snakemake
    seg,            \* locals of extend_repo_info_for_snakemake
    run,            \* number of the call of extend_repo_info_for_snakemake
    first_result,   \* repo_info as the first call left it (history)
    cycle_info,     \* argument cycle_info of generate_event_logs_for_evolution_cycle
    issues,         \* the records of argument issues the loop has read so far
    comments,       \* the same for argument comments
    events,         \* the same for argument events
    pullrequests,   \* the same for argument pullrequests
    resolved,       \* per pull request read, the commits attributed to it (history)
    record_limit,   \* how many provider records the four argument lists hold at most
    local_utcoffset, \* UTC offset of the time zone of the machine that runs the call
    syn,            \* locals of generate_event_logs_for_evolution_cycle
    result          \* the list the call returned

segVars == <<repo_info, seg, run, first_result>>
\* what the caller and the machine fix for a call of the synthesis
synArgs == <<cycle_info, record_limit, local_utcoffset>>
synVars == <<cycle_info, issues, comments, events, pullrequests, resolved,
            record_limit, local_utcoffset, syn, result>>
vars == <<pc, error, commits, segVars, synVars>>

(***************************************************************************)
(* Bounds                                                                  *)
(***************************************************************************)
\* largest number of commits in the commit map given to segmentation
MaxCommits == 3
\* committer epochs of segmentation are 0, 1/2 day, 1 day, ... MaxTick half days
MaxTick == 3

(***************************************************************************)
(* Generic helpers for dicts and lists                                     *)
(***************************************************************************)
\* d[k] = v on a dict
Put(d, k, v) == [x \in (DOMAIN d) \cup {k} |-> IF x = k THEN v ELSE d[x]]

\* list(set(l)): the distinct elements; the order Python gives them is not
\* specified, so the result is kept as a set
ListOfSet(l) == {l[k] : k \in 1..Len(l)}

\* convert_seconds that rounds up to whole units instead of truncating
convert_seconds_RoundUp(seconds, unit) ==
    IF seconds < 0 THEN -1
    ELSE CASE unit = "d" -> (seconds + 24 * 3600 - 1) \div (24 * 3600)
           [] unit = "h" -> (seconds + 3600 - 1) \div 3600
           [] unit = "m" -> (seconds + 60 - 1) \div 60

(***************************************************************************)
(* util.convert_seconds: int(seconds / unit) for seconds >= 0, None        *)
(* (written -1 here) for a missing or negative number of seconds           *)
(***************************************************************************)
convert_seconds(seconds, unit) ==
    IF seconds < 0 THEN -1
    ELSE CASE unit = "d" -> seconds \div (24 * 3600)
           [] unit = "h" -> seconds \div 3600
           [] unit = "m" -> seconds \div 60

(***************************************************************************)
(* The commit map                                                          *)
(***************************************************************************)
HashNames == <<"c1", "c2", "c3", "c4", "c5">>

\* commits[commit_hash]
CommitOf(cs, h) == cs[CHOOSE k \in 1..Len(cs) : cs[k].hash = h]

\* InsertByEpoch that puts a key before the keys of the same epoch
RECURSIVE InsertByEpoch_BeforeTies(_, _, _)
InsertByEpoch_BeforeTies(cs, sorted, h) ==
    IF sorted = <<>> THEN <<h>>
    ELSE IF CommitOf(cs, Head(sorted)).committer_epoch
                < CommitOf(cs, h).committer_epoch
         THEN <<Head(sorted)>> \o InsertByEpoch_BeforeTies(cs, Tail(sorted), h)
         ELSE <<h>> \o sorted

\* sorted(commits, key=lambda k: commits[k]['committer_epoch']): a stable
\* sort of the keys, computed by insertion from the front
RECURSIVE InsertByEpoch(_, _, _)
InsertByEpoch(cs, sorted, h) ==
    IF sorted = <<>> THEN <<h>>
    ELSE IF CommitOf(cs, Head(sorted)).committer_epoch
                <= CommitOf(cs, h).committer_epoch
         THEN <<Head(sorted)>> \o InsertByEpoch(cs, Tail(sorted), h)
         ELSE <<h>> \o sorted

RECURSIVE SortPrefix(_, _)
SortPrefix(cs, n) ==
    IF n = 0 THEN <<>>
    ELSE InsertByEpoch(cs, SortPrefix(cs, n - 1), cs[n].hash)

SortedByEpoch(cs) == SortPrefix(cs, Len(cs))

(***************************************************************************)
(* Inputs of segmentation                                                  *)
(***************************************************************************)
\* what a commit did to the workflow: the four counters of
\* _post_process_commit_info_for_snakemake, the extensions of the files it
\* touched and whether it is snakemake related
CommitKinds ==
    { [snakemake_n_rules_added |-> 0, snakemake_n_rules_removed |-> 0,
       snakemake_n_modules_added |-> 0, snakemake_n_modules_removed |-> 0,
       file_extensions |-> <<"py">>, snakemake_related |-> FALSE],
      [snakemake_n_rules_added |-> 1, snakemake_n_rules_removed |-> 0,
       snakemake_n_modules_added |-> 0, snakemake_n_modules_removed |-> 0,
       file_extensions |-> <<"smk">>, snakemake_related |-> TRUE],
      [snakemake_n_rules_added |-> 1, snakemake_n_rules_removed |-> 1,
       snakemake_n_modules_added |-> 0, snakemake_n_modules_removed |-> 0,
       file_extensions |-> <<"smk", "py">>, snakemake_related |-> TRUE],
      [snakemake_n_rules_added |-> 0, snakemake_n_rules_removed |-> 0,
       snakemake_n_modules_added |-> 0, snakemake_n_modules_removed |-> 1,
       file_extensions |-> <<>>, snakemake_related |-> TRUE] }

SegEpochs == {t * ((24 * 3600) \div 2) : t \in 0..MaxTick}

SegCommit(k, epoch, kind) ==
    [hash |-> HashNames[k],
     committer_epoch |-> epoch,
     snakemake_n_rules_added |-> kind.snakemake_n_rules_added,
     snakemake_n_rules_removed |-> kind.snakemake_n_rules_removed,
     snakemake_n_modules_added |-> kind.snakemake_n_modules_added,
     snakemake_n_modules_removed |-> kind.snakemake_n_modules_removed,
     file_extensions |-> kind.file_extensions,
     snakemake_related |-> kind.snakemake_related]

\* repo_info as the caller passes it: empty, or the repository's record
RepoInfos == { <<>>, [full_name |-> "owner/repo"] }

\* the locals before the call has set them
NoLocals == <<>>

(***************************************************************************)
(* extend_repo_info_for_snakemake                                          *)
(***************************************************************************)
SegInit ==
    /\ pc = "seg_call"
    /\ error = ""
    /\ \E n \in 0..MaxCommits :
          \E e \in [1..n -> SegEpochs], kd \in [1..n -> CommitKinds] :
              commits = [k \in 1..n |-> SegCommit(k, e[k], kd[k])]
    /\ repo_info \in RepoInfos
    /\ seg = NoLocals
    /\ run = 1
    /\ first_result = <<>>
    /\ cycle_info = <<>>
    /\ issues = <<>> /\ comments = <<>> /\ events = <<>> /\ pullrequests = <<>>
    /\ resolved = <<>>
    /\ record_limit = 0
    /\ local_utcoffset = 0
    /\ syn = NoLocals
    /\ result = <<>>

\* ResetRepoInfo without the reset of line 605: cycles of an earlier call stay
ResetRepoInfo_KeepCycles(ri) ==
    IF "evolution_cycles" \in DOMAIN ri
    THEN [ri EXCEPT !["n_commits_snakemake_related"] = 0]
    ELSE Put(Put(Put(ri, "n_commits_snakemake_related", 0),
                 "n_evolution_cycles", 0),
             "evolution_cycles", <<>>)

\* ResetRepoInfo that builds a new repo_info of the result fields alone
ResetRepoInfo_ResultFieldsOnly(ri) ==
    [n_commits_snakemake_related |-> 0,
     n_evolution_cycles |-> 0,
     evolution_cycles |-> <<>>]

\* lines 603-622: the result fields are reset and the locals initialised
ResetRepoInfo(ri) ==
    Put(Put(Put(ri, "n_commits_snakemake_related", 0),
            "n_evolution_cycles", 0),
        "evolution_cycles", <<>>)

InitialLocals(cs) ==
    [cycle_begin |-> <<>>,
     cycle_end |-> <<>>,
     cycle_n_commits |-> 0,
     cycle_n_commits_snakemake_related |-> 0,
     cycle_n_snakemake_rules_added |-> 0,
     cycle_n_snakemake_rules_removed |-> 0,
     cycle_n_snakemake_modules_added |-> 0,
     cycle_n_snakemake_modules_removed |-> 0,
     cycle_n_snakemake_rules_added_on_the_day |-> 0,
     cycle_n_snakemake_rules_removed_on_the_day |-> 0,
     cycle_n_snakemake_modules_added_on_the_day |-> 0,
     cycle_n_snakemake_modules_removed_on_the_day |-> 0,
     is_last_commit_of_the_day |-> FALSE,
     file_extensions |-> <<>>,
     commit_hashes_sorted_by_epoch |-> SortedByEpoch(cs),
     i_commit |-> 1]

\* lines 597-601: "if not repo_info" / "if not commits"
ExtendRejected ==
    /\ pc = "seg_call"
    /\ repo_info = <<>> \/ commits = <<>>
    /\ pc' = "seg_raised"
    /\ error' = IF repo_info = <<>> THEN "ValueError: 'repo_info' is required."
                ELSE "ValueError: 'commits' is required."
    /\ UNCHANGED <<commits, repo_info, seg, run, first_result, synVars>>

\* lines 603-622
ExtendStart ==
    /\ pc = "seg_call"
    /\ repo_info # <<>> /\ commits # <<>>
    /\ repo_info' = ResetRepoInfo(repo_info)
    /\ seg' = InitialLocals(commits)
    /\ pc' = "seg_walk"
    /\ UNCHANGED <<error, commits, run, first_result, synVars>>

\* the commit of the running iteration
CurHash == seg.commit_hashes_sorted_by_epoch[seg.i_commit]
CurCommit == CommitOf(commits, CurHash)
InLoop == pc = "seg_walk" /\ seg.i_commit <= Len(seg.commit_hashes_sorted_by_epoch)

\* lines 630-633
cycle_current == [hash |-> CurHash, epoch |-> CurCommit.committer_epoch]

\* lines 627-628
RepoInfoCounted ==
    IF CurCommit.snakemake_related
    THEN [repo_info EXCEPT !["n_commits_snakemake_related"] = @ + 1]
    ELSE repo_info

\* LocalsAtEnd that adds the counters and the extensions of every walked
\* commit to the totals of the running cycle
LocalsAtEnd_Accumulating ==
    [seg EXCEPT
        !.cycle_n_commits = @ + 1,
        !.cycle_end = cycle_current,
        !.cycle_n_commits_snakemake_related =
            IF CurCommit.snakemake_related THEN @ + 1 ELSE @,
        !.cycle_n_snakemake_rules_added = @ + CurCommit.snakemake_n_rules_added,
        !.cycle_n_snakemake_rules_removed =
            @ + CurCommit.snakemake_n_rules_removed,
        !.cycle_n_snakemake_modules_added =
            @ + CurCommit.snakemake_n_modules_added,
        !.cycle_n_snakemake_modules_removed =
            @ + CurCommit.snakemake_n_modules_removed,
        !.file_extensions = @ \o CurCommit.file_extensions]

\* lines 626, 642-644: the locals once an iteration after the first has
\* counted its commit and made it the candidate end of the cycle
LocalsAtEnd ==
    [seg EXCEPT
        !.cycle_n_commits = @ + 1,
        !.cycle_end = cycle_current,
        !.cycle_n_commits_snakemake_related =
            IF CurCommit.snakemake_related THEN @ + 1 ELSE @]

\* added_or_removed that is non-zero whenever a counter of the commit is
added_or_removed_AnyCounter(commit) ==
    commit.snakemake_n_rules_added + commit.snakemake_n_rules_removed
    + commit.snakemake_n_modules_added + commit.snakemake_n_modules_removed

\* lines 646-651: "a - b or c - d" is the first difference unless it is 0
added_or_removed(commit) ==
    IF commit.snakemake_n_rules_added - commit.snakemake_n_rules_removed # 0
    THEN commit.snakemake_n_rules_added - commit.snakemake_n_rules_removed
    ELSE commit.snakemake_n_modules_added - commit.snakemake_n_modules_removed

\* Considered for every commit after the first, whatever it changed
Considered_Always == TRUE

\* line 653
Considered ==
    added_or_removed(CurCommit) # 0 \/ seg.is_last_commit_of_the_day

\* line 659: "if begin_epoch and end_epoch"
EpochsPresent ==
    seg.cycle_begin.epoch # 0 /\ cycle_current.epoch # 0

\* lines 667-671
NextIsSameDay ==
    /\ seg.i_commit + 1 <= Len(commits)
    /\ convert_seconds(
          CommitOf(commits,
                   seg.commit_hashes_sorted_by_epoch[seg.i_commit + 1]
                  ).committer_epoch - cycle_current.epoch, "d") = 0

\* lines 635-640: the first commit seeds cycle_begin
WalkSeed ==
    /\ InLoop
    /\ seg.cycle_begin = <<>>
    /\ seg' = [seg EXCEPT
                  !.cycle_begin = cycle_current,
                  !.cycle_n_commits = IF seg.cycle_end = <<>> THEN 1 ELSE 0,
                  !.i_commit = @ + 1]
    /\ repo_info' = RepoInfoCounted
    /\ UNCHANGED <<pc, error, commits, run, first_result, synVars>>

\* lines 641-653 with the condition of line 653 false
WalkPass ==
    /\ InLoop
    /\ seg.cycle_begin # <<>>
    /\ ~Considered
    /\ seg' = [LocalsAtEnd EXCEPT !.i_commit = @ + 1]
    /\ repo_info' = RepoInfoCounted
    /\ UNCHANGED <<pc, error, commits, run, first_result, synVars>>

\* lines 653-664: a missing epoch is fatal
WalkRaise ==
    /\ InLoop
    /\ seg.cycle_begin # <<>>
    /\ Considered
    /\ ~EpochsPresent
    /\ seg' = LocalsAtEnd
    /\ repo_info' = RepoInfoCounted
    /\ pc' = "seg_raised"
    /\ error' = "ValueError: Invalid epoch values for cycle begin and end."
    /\ UNCHANGED <<commits, run, first_result, synVars>>

\* lines 666-680: the next commit is less than a day later, closing is deferred
WalkDefer ==
    /\ InLoop
    /\ seg.cycle_begin # <<>>
    /\ Considered
    /\ EpochsPresent
    /\ NextIsSameDay
    /\ seg' = [LocalsAtEnd EXCEPT
                  !.cycle_n_snakemake_rules_added_on_the_day =
                      @ + CurCommit.snakemake_n_rules_added,
                  !.cycle_n_snakemake_rules_removed_on_the_day =
                      @ + CurCommit.snakemake_n_rules_removed,
                  !.cycle_n_snakemake_modules_added_on_the_day =
                      @ + CurCommit.snakemake_n_modules_added,
                  !.cycle_n_snakemake_modules_removed_on_the_day =
                      @ + CurCommit.snakemake_n_modules_removed,
                  !.file_extensions = @ \o CurCommit.file_extensions,
                  !.is_last_commit_of_the_day = TRUE,
                  !.i_commit = @ + 1]
    /\ repo_info' = RepoInfoCounted
    /\ UNCHANGED <<pc, error, commits, run, first_result, synVars>>

\* lines 690-703 and 728-741: the cycle record appended to evolution_cycles
CycleRecord(s, begin, end) ==
    [begin |-> begin,
     end |-> end,
     diff_days |-> convert_seconds(end.epoch - begin.epoch, "d"),
     diff_mins |-> convert_seconds(end.epoch - begin.epoch, "m"),
     diff_hours |-> convert_seconds(end.epoch - begin.epoch, "h"),
     n_commits |-> s.cycle_n_commits,
     n_commits_snakemake_related |-> s.cycle_n_commits_snakemake_related,
     n_snakemake_rules_added |-> s.cycle_n_snakemake_rules_added,
     n_snakemake_rules_removed |-> s.cycle_n_snakemake_rules_removed,
     n_snakemake_modules_added |-> s.cycle_n_snakemake_modules_added,
     n_snakemake_modules_removed |-> s.cycle_n_snakemake_modules_removed,
     file_extensions |-> ListOfSet(s.file_extensions)]

\* LocalsAtClose that records the same-day buffers only, without the
\* counters of the closing commit
LocalsAtClose_BuffersOnly ==
    [LocalsAtEnd EXCEPT
        !.cycle_n_snakemake_rules_added =
            seg.cycle_n_snakemake_rules_added_on_the_day,
        !.cycle_n_snakemake_rules_removed =
            seg.cycle_n_snakemake_rules_removed_on_the_day,
        !.cycle_n_snakemake_modules_added =
            seg.cycle_n_snakemake_modules_added_on_the_day,
        !.cycle_n_snakemake_modules_removed =
            seg.cycle_n_snakemake_modules_removed_on_the_day,
        !.file_extensions = @ \o CurCommit.file_extensions]

\* LocalsAtClose that records the closing commit only, without the
\* same-day buffers
LocalsAtClose_ClosingOnly ==
    [LocalsAtEnd EXCEPT
        !.cycle_n_snakemake_rules_added = CurCommit.snakemake_n_rules_added,
        !.cycle_n_snakemake_rules_removed = CurCommit.snakemake_n_rules_removed,
        !.cycle_n_snakemake_modules_added = CurCommit.snakemake_n_modules_added,
        !.cycle_n_snakemake_modules_removed =
            CurCommit.snakemake_n_modules_removed,
        !.file_extensions = @ \o CurCommit.file_extensions]

\* lines 683-688: the totals of the cycle that closes at the running commit
LocalsAtClose ==
    [LocalsAtEnd EXCEPT
        !.cycle_n_snakemake_rules_added =
            CurCommit.snakemake_n_rules_added
            + seg.cycle_n_snakemake_rules_added_on_the_day,
        !.cycle_n_snakemake_rules_removed =
            CurCommit.snakemake_n_rules_removed
            + seg.cycle_n_snakemake_rules_removed_on_the_day,
        !.cycle_n_snakemake_modules_added =
            CurCommit.snakemake_n_modules_added
            + seg.cycle_n_snakemake_modules_added_on_the_day,
        !.cycle_n_snakemake_modules_removed =
            CurCommit.snakemake_n_modules_removed
            + seg.cycle_n_snakemake_modules_removed_on_the_day,
        !.file_extensions = @ \o CurCommit.file_extensions]

\* LocalsReset that counts the boundary commit again in the next cycle
LocalsReset_CountBoundary(s) ==
    [s EXCEPT
        !.cycle_begin = s.cycle_end,
        !.cycle_n_commits_snakemake_related = 0,
        !.cycle_n_commits = 1,
        !.cycle_n_snakemake_rules_added = 0,
        !.cycle_n_snakemake_rules_removed = 0,
        !.cycle_n_snakemake_modules_added = 0,
        !.cycle_n_snakemake_modules_removed = 0,
        !.cycle_n_snakemake_rules_added_on_the_day = 0,
        !.cycle_n_snakemake_rules_removed_on_the_day = 0,
        !.cycle_n_snakemake_modules_added_on_the_day = 0,
        !.cycle_n_snakemake_modules_removed_on_the_day = 0,
        !.is_last_commit_of_the_day = FALSE,
        !.file_extensions = <<>>]

\* LocalsReset that keeps the same-day buffers, the deferral flag and the
\* list of file extensions
LocalsReset_KeepBuffers(s) ==
    [s EXCEPT
        !.cycle_begin = s.cycle_end,
        !.cycle_n_commits_snakemake_related = 0,
        !.cycle_n_commits = 0,
        !.cycle_n_snakemake_rules_added = 0,
        !.cycle_n_snakemake_rules_removed = 0,
        !.cycle_n_snakemake_modules_added = 0,
        !.cycle_n_snakemake_modules_removed = 0]

\* LocalsReset that leaves the begin marker where it was
LocalsReset_KeepBegin(s) ==
    [s EXCEPT
        !.cycle_n_commits_snakemake_related = 0,
        !.cycle_n_commits = 0,
        !.cycle_n_snakemake_rules_added = 0,
        !.cycle_n_snakemake_rules_removed = 0,
        !.cycle_n_snakemake_modules_added = 0,
        !.cycle_n_snakemake_modules_removed = 0,
        !.cycle_n_snakemake_rules_added_on_the_day = 0,
        !.cycle_n_snakemake_rules_removed_on_the_day = 0,
        !.cycle_n_snakemake_modules_added_on_the_day = 0,
        !.cycle_n_snakemake_modules_removed_on_the_day = 0,
        !.is_last_commit_of_the_day = FALSE,
        !.file_extensions = <<>>]

\* lines 705-717: the next cycle begins where this one ended
LocalsReset(s) ==
    [s EXCEPT
        !.cycle_begin = s.cycle_end,
        !.cycle_n_commits_snakemake_related = 0,
        !.cycle_n_commits = 0,
        !.cycle_n_snakemake_rules_added = 0,
        !.cycle_n_snakemake_rules_removed = 0,
        !.cycle_n_snakemake_modules_added = 0,
        !.cycle_n_snakemake_modules_removed = 0,
        !.cycle_n_snakemake_rules_added_on_the_day = 0,
        !.cycle_n_snakemake_rules_removed_on_the_day = 0,
        !.cycle_n_snakemake_modules_added_on_the_day = 0,
        !.cycle_n_snakemake_modules_removed_on_the_day = 0,
        !.is_last_commit_of_the_day = FALSE,
        !.file_extensions = <<>>]

\* repo_info["n_evolution_cycles"] += 1; repo_info["evolution_cycles"].append
AppendCycle(ri, cycle) ==
    [ri EXCEPT !["n_evolution_cycles"] = @ + 1,
               !["evolution_cycles"] = Append(@, cycle)]

\* lines 682-717: the cycle is closed at the running commit
WalkClose ==
    /\ InLoop
    /\ seg.cycle_begin # <<>>
    /\ Considered
    /\ EpochsPresent
    /\ ~NextIsSameDay
    /\ repo_info' = AppendCycle(RepoInfoCounted,
                        CycleRecord(LocalsAtClose, seg.cycle_begin, cycle_current))
    /\ seg' = [LocalsReset(LocalsAtClose) EXCEPT !.i_commit = @ + 1]
    /\ UNCHANGED <<pc, error, commits, run, first_result, synVars>>

\* HasLeftover without the comparison of the two markers
HasLeftover_SameMarkers(s) ==
    s.cycle_begin # <<>> /\ s.cycle_end # <<>>

\* line 720
HasLeftover(s) ==
    s.cycle_begin # <<>> /\ s.cycle_end # <<>> /\ s.cycle_begin # s.cycle_end

AfterLoop == pc = "seg_walk" /\ seg.i_commit > Len(seg.commit_hashes_sorted_by_epoch)

Returned(ri) ==
    /\ pc' = "seg_done"
    /\ first_result' = IF run = 1 THEN ri ELSE first_result
    /\ UNCHANGED <<error, commits, seg, run, synVars>>

\* lines 719-743: the leftover cycle is stored, without a check of the epochs
FlushLeftover ==
    /\ AfterLoop
    /\ HasLeftover(seg)
    /\ repo_info' = AppendCycle(repo_info,
                        CycleRecord(seg, seg.cycle_begin, seg.cycle_end))
    /\ Returned(repo_info')

\* lines 720, 743: nothing is left over
ReturnNoLeftover ==
    /\ AfterLoop
    /\ ~HasLeftover(seg)
    /\ repo_info' = repo_info
    /\ Returned(repo_info)

\* the caller runs the segmentation again on the repo_info it extended
CallAgain ==
    /\ pc = "seg_done"
    /\ run = 1
    /\ run' = 2
    /\ pc' = "seg_call"
    /\ seg' = NoLocals
    /\ UNCHANGED <<error, commits, repo_info, first_result, synVars>>

SegNext ==
    \/ ExtendRejected
    \/ ExtendStart
    \/ WalkSeed
    \/ WalkPass
    \/ WalkRaise
    \/ WalkDefer
    \/ WalkClose
    \/ FlushLeftover
    \/ ReturnNoLeftover
    \/ CallAgain

SegSpec == SegInit /\ [][SegNext]_vars

(***************************************************************************)
(* Time stamps of the synthesis                                            *)
(*                                                                         *)
(* Time is counted in whole units from 1 to MaxTime.  A string is the      *)
(* sequence of its character codes: "0".."9" are 48..57, " " is 32, "+"    *)
(* is 43, "-" is 45 and "Z" is 90; Python compares strings code by code.   *)
(* The 19 characters that strftime writes for "%Y-%m-%dT%H:%M:%S" are      *)
(* fields of fixed width, most significant first: two decimal digits       *)
(* stand for them.                                                         *)
(***************************************************************************)
\* latest time of a commit or of a provider record
MaxTime == 2
\* largest number of issues, comments, events and pull requests, together
MaxRecords == 1
\* UTC offset of the local time zone of a machine that is not on UTC
LocalUtcOffset == 1

\* the time zones of the machine that runs the analysis
LocalUtcOffsets == {0, LocalUtcOffset}

Times == 1..MaxTime

Digits(w) == <<48 + (w \div 10), 48 + (w % 10)>>

Abs(n) == IF n < 0 THEN -n ELSE n

\* the provider's "%Y-%m-%dT%H:%M:%SZ" for the UTC time t
ProviderStr(t) == Digits(t) \o <<90>>

\* a date in another format, "%Y-%m-%d %H:%M:%S"
BadDate == <<48, 32, 49>>

\* util.str_to_datetime with fmt="%Y-%m-%dT%H:%M:%SZ": None for a missing or
\* empty string (<<>>), ValueError of strptime for a string of another
\* format, else the naive datetime the string spells
str_to_datetime(date_str) ==
    IF date_str = <<>> THEN [kind |-> "None"]
    ELSE IF /\ Len(date_str) = 3
            /\ date_str[1] \in 48..57
            /\ date_str[2] \in 48..57
            /\ date_str[3] = 90
         THEN [kind |-> "datetime",
               wall |-> (date_str[1] - 48) * 10 + (date_str[2] - 48)]
         ELSE [kind |-> "ValueError"]

\* int(dt.timestamp()) of a naive datetime: it is read as local time
timestamp(dt) == dt.wall - local_utcoffset

\* dt.strftime("%Y-%m-%dT%H:%M:%SZ")
strftimeZ(dt) == Digits(dt.wall) \o <<90>>

\* util.epoch_to_str with its default fmt "%Y-%m-%dT%H:%M:%S %z":
\* fromtimestamp gives a naive local datetime, for which %z is empty
epoch_to_str(epoch) ==
    IF epoch <= 0 THEN <<>>
    ELSE Digits(epoch + local_utcoffset) \o <<32>>

\* commit.committer_date.strftime("%Y-%m-%dT%H:%M:%S %z") of extract_commits:
\* the committer's wall clock followed by the committer's UTC offset
committer_date_str(epoch, utcoffset) ==
    Digits(epoch + utcoffset)
        \o <<32, IF utcoffset >= 0 THEN 43 ELSE 45>> \o Digits(Abs(utcoffset))

\* str.__lt__ and str.__le__
RECURSIVE StrLess(_, _)
StrLess(a, b) ==
    IF b = <<>> THEN FALSE
    ELSE IF a = <<>> THEN TRUE
    ELSE IF Head(a) # Head(b) THEN Head(a) < Head(b)
    ELSE StrLess(Tail(a), Tail(b))

StrLeq(a, b) == ~StrLess(b, a)

(***************************************************************************)
(* Inputs of the synthesis                                                 *)
(***************************************************************************)
\* a hash that no commit of the map has
AbsentHash == "zz"

\* UTC offsets of the committers of c1, c2, c3
CommitterUtcOffset == <<0, 1, -1>>

\* commit_hash[:7]; the hashes of the model are shorter than 7 characters
ShortHash(h) == h

SynCommit(k, epoch, parents) ==
    [hash |-> HashNames[k],
     committer |-> "dev:dev@example.org",
     committer_epoch |-> epoch,
     committer_date |-> committer_date_str(epoch, CommitterUtcOffset[k]),
     parents |-> parents]

\* the parents of c3: one parent that is not in the map, two parents in
\* either order, two parents of which one is not in the map
MergeParents ==
    { <<AbsentHash>>, <<"c1", "c2">>, <<"c2", "c1">>, <<"c1", AbsentHash>> }

\* c1 is the root, c2 its child, c3 a merge commit
SynCommitMaps ==
    { <<SynCommit(1, e[1], <<>>), SynCommit(2, e[2], <<"c1">>),
        SynCommit(3, e[3], mp)>> :
      e \in [1..3 -> Times], mp \in MergeParents }

\* the counters of a cycle that line 482 reads
CycleCounters ==
    { [n_snakemake_rules_added |-> 0, n_snakemake_modules_added |-> 0],
      [n_snakemake_rules_added |-> 1, n_snakemake_modules_added |-> 0],
      [n_snakemake_rules_added |-> 0, n_snakemake_modules_added |-> 1] }

Marker(cs, h) == [hash |-> h, epoch |-> CommitOf(cs, h).committer_epoch]

\* a cycle as the segmentation produces it: it begins and ends at two
\* commits of the map, the begin before the end in the sorted order
CycleInfo(cs, i, j, c) ==
    [begin |-> Marker(cs, SortedByEpoch(cs)[i]),
     end |-> Marker(cs, SortedByEpoch(cs)[j]),
     n_snakemake_rules_added |-> c.n_snakemake_rules_added,
     n_snakemake_modules_added |-> c.n_snakemake_modules_added]

CycleInfos(cs) ==
    UNION { { CycleInfo(cs, i, j, c) : j \in (i + 1)..Len(cs), c \in CycleCounters } :
            i \in 1..Len(cs) }

DateStrs == {<<>>, BadDate} \cup {ProviderStr(t) : t \in Times}

Issue(created_at, closed_at) ==
    [number |-> 4, created_at |-> created_at, closed_at |-> closed_at,
     user |-> [login |-> "alice"]]

\* an issue is closed no earlier than it is created
IssueRecords ==
    {Issue(<<>>, <<>>), Issue(BadDate, <<>>)}
    \cup UNION { { Issue(ProviderStr(t), d) :
                     d \in {<<>>, BadDate} \cup {ProviderStr(u) : u \in t..MaxTime} } :
                 t \in Times }

\* issue_url as its path segments; the last one is the issue number
CommentRecords ==
    { [id |-> 1, created_at |-> c, issue_url |-> <<"issues", 4>>,
       user |-> [login |-> "bob"]] : c \in DateStrs }

\* actor is None (<<>>) or has a login
EventRecords ==
    { [id |-> 1, created_at |-> c, event |-> "labeled", actor |-> a,
       issue |-> [number |-> 4]] :
      c \in DateStrs, a \in {<<>>, [login |-> "bob"]} }

PullRequest(n, created_at, sha) ==
    [number |-> n, created_at |-> created_at, user |-> [login |-> "carol"],
     merge_commit_sha |-> sha]

\* merge_commit_sha is None or empty (""), the hash of c2 or c3, or a hash
\* that is not in the map
PullRequestRecords(n) ==
    {PullRequest(n, BadDate, "")}
    \cup { PullRequest(n, c, sha) :
             c \in DateStrs \ {BadDate}, sha \in {"", "c2", "c3", AbsentHash} }

\* pull request numbers are unique
NextPullRequestNumber == 7 + Len(pullrequests)

RecordsRead == Len(issues) + Len(comments) + Len(events) + Len(pullrequests)

(***************************************************************************)
(* generate_event_logs_for_evolution_cycle                                 *)
(***************************************************************************)
\* lines 395-398
InitialSynLocals ==
    [event_logs |-> <<>>,
     commits_preprocessed |-> <<>>,
     commit_parents |-> <<>>,
     commits_hashes |-> <<>>]

SynInit ==
    /\ pc = "syn_issues"
    /\ error = ""
    /\ commits \in SynCommitMaps
    /\ cycle_info \in CycleInfos(commits)
    /\ issues = <<>> /\ comments = <<>> /\ events = <<>> /\ pullrequests = <<>>
    /\ resolved = <<>>
    /\ record_limit = MaxRecords
    /\ local_utcoffset \in LocalUtcOffsets
    /\ syn = InitialSynLocals
    /\ result = <<>>
    /\ repo_info = <<>>
    /\ seg = NoLocals
    /\ run = 0
    /\ first_result = <<>>

\* lines 392-393
begin_epoch == cycle_info.begin.epoch
end_epoch == cycle_info.end.epoch

\* InWindow with the end of the window excluded
InWindow_EndExcluded(epoch) == epoch >= begin_epoch /\ epoch < end_epoch

\* "x >= begin_epoch and x <= end_epoch"
InWindow(epoch) == epoch >= begin_epoch /\ epoch <= end_epoch

Entry(case_id, activity, ts, user) ==
    [case_id |-> case_id, activity |-> activity, timestamp |-> ts, user |-> user]

\* what the body of a loop did: the entries it appended, or the exception
Appended(entries) == [error |-> "", entries |-> entries]
Raised(err) == [error |-> err, entries |-> <<>>]

StrptimeError == "ValueError: time data does not match format"

\* lines 400-432
IssueBody(issue) ==
    LET created_at == str_to_datetime(issue.created_at)
        closed_at == str_to_datetime(issue.closed_at)
    IN  IF created_at.kind = "ValueError" THEN Raised(StrptimeError)
        ELSE IF created_at.kind = "None" THEN Appended(<<>>)
        ELSE IF closed_at.kind = "ValueError" THEN Raised(StrptimeError)
        ELSE Appended(
            (IF InWindow(timestamp(created_at))
             THEN <<Entry(<<"Issue", issue.number>>, "Issue Created",
                          strftimeZ(created_at), issue.user.login)>>
             ELSE <<>>)
            \o
            (IF closed_at.kind = "datetime" /\ InWindow(timestamp(closed_at))
             THEN <<Entry(<<"Issue", issue.number>>, "Issue Closed",
                          strftimeZ(closed_at), issue.user.login)>>
             ELSE <<>>))

\* lines 434-447
CommentBody(comment) ==
    LET created_at == str_to_datetime(comment.created_at)
    IN  IF created_at.kind = "ValueError" THEN Raised(StrptimeError)
        ELSE IF created_at.kind = "None" THEN Appended(<<>>)
        ELSE IF InWindow(timestamp(created_at))
             THEN Appended(<<Entry(
                      <<"Issue", comment.issue_url[Len(comment.issue_url)]>>,
                      "Issue Commented", strftimeZ(created_at),
                      comment.user.login)>>)
             ELSE Appended(<<>>)

\* lines 449-465
EventBody(event) ==
    LET created_at == str_to_datetime(event.created_at)
        user == IF event.actor # <<>> /\ "login" \in DOMAIN event.actor
                THEN event.actor.login ELSE "None"
    IN  IF created_at.kind = "ValueError" THEN Raised(StrptimeError)
        ELSE IF created_at.kind = "None" THEN Appended(<<>>)
        ELSE IF InWindow(timestamp(created_at))
             THEN Appended(<<Entry(<<"Issue", event.issue.number>>, event.event,
                                   strftimeZ(created_at), user)>>)
             ELSE Appended(<<>>)

\* the effect of one iteration of the first three loops
Step(body, next_pc) ==
    /\ pc' = IF body.error = "" THEN next_pc ELSE "syn_raised"
    /\ error' = body.error
    /\ syn' = [syn EXCEPT !.event_logs = @ \o body.entries]

\* lines 400-432, one issue
ProcessIssue ==
    /\ pc = "syn_issues"
    /\ RecordsRead < record_limit
    /\ \E issue \in IssueRecords :
          /\ issues' = Append(issues, issue)
          /\ Step(IssueBody(issue), "syn_issues")
    /\ UNCHANGED <<commits, segVars, synArgs, comments, events,
                   pullrequests, resolved, result>>

\* lines 434-447, one comment, once the issues are read
ProcessComment ==
    /\ pc \in {"syn_issues", "syn_comments"}
    /\ RecordsRead < record_limit
    /\ \E comment \in CommentRecords :
          /\ comments' = Append(comments, comment)
          /\ Step(CommentBody(comment), "syn_comments")
    /\ UNCHANGED <<commits, segVars, synArgs, issues, events,
                   pullrequests, resolved, result>>

\* lines 449-465, one event, once the comments are read
ProcessEvent ==
    /\ pc \in {"syn_issues", "syn_comments", "syn_events"}
    /\ RecordsRead < record_limit
    /\ \E event \in EventRecords :
          /\ events' = Append(events, event)
          /\ Step(EventBody(event), "syn_events")
    /\ UNCHANGED <<commits, segVars, synArgs, issues, comments,
                   pullrequests, resolved, result>>

\* lines 468-489, one commit
CommitBody(s, commit_hash) ==
    LET commit == CommitOf(commits, commit_hash)
        committed_epoch == commit.committer_epoch
        committed_at == epoch_to_str(committed_epoch)
        activity == IF \/ cycle_info.n_snakemake_rules_added > 0
                       \/ cycle_info.n_snakemake_modules_added > 0
                    THEN "Committed-Snakemake" ELSE "Committed"
    IN  IF \E k \in 1..Len(s.commits_preprocessed) :
               s.commits_preprocessed[k] = commit_hash
        THEN s
        ELSE [s EXCEPT
                !.commits_hashes = Append(@, commit_hash),
                !.commit_parents =
                    IF Len(commit.parents) > 0
                    THEN Put(@, commit_hash, commit.parents) ELSE @,
                !.event_logs =
                    IF InWindow(committed_epoch)
                    THEN Append(@, Entry(<<"Commit", ShortHash(commit_hash)>>,
                                         activity, committed_at, commit.committer))
                    ELSE @]

\* lines 467-489: the loop over the commits in the order of their epochs
RECURSIVE CommitLoop(_, _)
CommitLoop(s, hashes) ==
    IF hashes = <<>> THEN s
    ELSE CommitLoop(CommitBody(s, Head(hashes)), Tail(hashes))

\* lines 467-489, once the events are read
ProcessCommits ==
    /\ pc \in {"syn_issues", "syn_comments", "syn_events"}
    /\ syn' = CommitLoop(syn, SortedByEpoch(commits))
    /\ pc' = "syn_prs"
    /\ UNCHANGED <<error, commits, segVars, synArgs, issues, comments,
                   events, pullrequests, resolved, result>>

HasCommit(h) == \E k \in 1..Len(commits) : commits[k].hash = h

\* list.index: the position of x in l, from 1
IndexOf(l, x) == CHOOSE k \in 1..Len(l) : l[k] = x /\ \A m \in 1..(k - 1) : l[m] # x
Contains(l, x) == \E k \in 1..Len(l) : l[k] = x

\* lines 519-527: range(begin_index, end_index) over commits_hashes
ChildCommits(commits_hashes, parents) ==
    SubSeq(commits_hashes, IndexOf(commits_hashes, parents[1]),
                           IndexOf(commits_hashes, parents[2]) - 1)

\* AttributedEntry with the time stamp the standalone commit entries carry
AttributedEntry_EpochStr(pr, commit_hash) ==
    Entry(<<"Issue", pr.number>>, "Committed",
          epoch_to_str(CommitOf(commits, commit_hash).committer_epoch),
          pr.user.login)

\* AttributedEntry with the activity the standalone commit entries carry
AttributedEntry_CycleActivity(pr, commit_hash) ==
    Entry(<<"Issue", pr.number>>,
          IF \/ cycle_info.n_snakemake_rules_added > 0
             \/ cycle_info.n_snakemake_modules_added > 0
          THEN "Committed-Snakemake" ELSE "Committed",
          CommitOf(commits, commit_hash).committer_date, pr.user.login)

\* lines 511-516 and 532-537
AttributedEntry(pr, commit_hash) ==
    Entry(<<"Issue", pr.number>>, "Committed",
          CommitOf(commits, commit_hash).committer_date, pr.user.login)

\* what lines 506-541 do for a pull request: the commits attributed to it,
\* or the exception of a parent that is looked up and not found
Resolve(pr, s) ==
    LET sha == pr.merge_commit_sha
        parents == s.commit_parents[sha]
    IN  IF sha = "" \/ sha \notin DOMAIN s.commit_parents
        THEN [error |-> "", attributed |-> <<>>]
        ELSE IF Len(parents) = 1
        THEN IF HasCommit(parents[1])
             THEN [error |-> "", attributed |-> <<parents[1]>>]
             ELSE [error |-> "KeyError: parent not in commits",
                   attributed |-> <<>>]
        ELSE IF Len(parents) = 2
        THEN IF Contains(s.commits_hashes, parents[1])
                /\ Contains(s.commits_hashes, parents[2])
             THEN [error |-> "",
                   attributed |-> ChildCommits(s.commits_hashes, parents)]
             ELSE [error |-> "ValueError: parent is not in list",
                   attributed |-> <<>>]
        ELSE [error |-> "", attributed |-> <<>>]

\* lines 491-541, one pull request: the exception, the commits attributed
\* and the locals after the iteration
PullRequestBody(pr, s) ==
    LET created_at == str_to_datetime(pr.created_at)
        opened ==
            IF created_at.kind = "datetime" /\ InWindow(timestamp(created_at))
            THEN <<Entry(<<"Issue", pr.number>>, "Pull Request Opened",
                         strftimeZ(created_at), pr.user.login)>>
            ELSE <<>>
        r == Resolve(pr, s)
    IN  IF created_at.kind = "ValueError"
        THEN [error |-> StrptimeError, attributed |-> <<>>, syn |-> s]
        ELSE IF created_at.kind = "None"
        THEN [error |-> "", attributed |-> <<>>, syn |-> s]
        ELSE [error |-> r.error,
              attributed |-> r.attributed,
              syn |-> [s EXCEPT
                  !.event_logs =
                      @ \o opened
                        \o [k \in 1..Len(r.attributed) |->
                               AttributedEntry(pr, r.attributed[k])],
                  !.commits_preprocessed = @ \o r.attributed]]

\* lines 491-541, one pull request
ProcessPullRequest ==
    /\ pc = "syn_prs"
    /\ RecordsRead < record_limit
    /\ \E pr \in PullRequestRecords(NextPullRequestNumber) :
          LET body == PullRequestBody(pr, syn)
          IN  /\ pullrequests' = Append(pullrequests, pr)
              /\ resolved' = Append(resolved, body.attributed)
              /\ syn' = body.syn
              /\ error' = body.error
              /\ pc' = IF body.error = "" THEN "syn_prs" ELSE "syn_raised"
    /\ UNCHANGED <<commits, segVars, synArgs, issues, comments, events,
                   result>>

\* InsertByTimestamp that puts an entry before the entries of the same
\* time stamp
RECURSIVE InsertByTimestamp_BeforeTies(_, _)
InsertByTimestamp_BeforeTies(sorted, x) ==
    IF sorted = <<>> THEN <<x>>
    ELSE IF StrLess(Head(sorted).timestamp, x.timestamp)
         THEN <<Head(sorted)>> \o InsertByTimestamp_BeforeTies(Tail(sorted), x)
         ELSE <<x>> \o sorted

\* sorted(event_logs, key=lambda x: x["timestamp"]): a stable sort
RECURSIVE InsertByTimestamp(_, _)
InsertByTimestamp(sorted, x) ==
    IF sorted = <<>> THEN <<x>>
    ELSE IF StrLeq(Head(sorted).timestamp, x.timestamp)
         THEN <<Head(sorted)>> \o InsertByTimestamp(Tail(sorted), x)
         ELSE <<x>> \o sorted

RECURSIVE SortLogPrefix(_, _)
SortLogPrefix(logs, n) ==
    IF n = 0 THEN <<>>
    ELSE InsertByTimestamp(SortLogPrefix(logs, n - 1), logs[n])

\* the list returned as it was built, without the sort of line 543
Unsorted(logs) == logs

SortedByTimestamp(logs) == SortLogPrefix(logs, Len(logs))

\* line 543, once the pull requests are read
ReturnSorted ==
    /\ pc = "syn_prs"
    /\ result' = SortedByTimestamp(syn.event_logs)
    /\ pc' = "syn_done"
    /\ UNCHANGED <<error, commits, segVars, synArgs, issues, comments,
                   events, pullrequests, resolved, syn>>

SynNext ==
    \/ ProcessIssue
    \/ ProcessComment
    \/ ProcessEvent
    \/ ProcessCommits
    \/ ProcessPullRequest
    \/ ReturnSorted

SynSpec == SynInit /\ [][SynNext]_vars

(***************************************************************************)
(* The synthesis on longer record lists: one more record than MaxRecords,  *)
(* for the commit maps in which c3 merges c1 and c2, with the window from  *)
(* the first to the last commit of a cycle without additions               *)
(***************************************************************************)
TieCommitMaps ==
    { <<SynCommit(1, e[1], <<>>), SynCommit(2, e[2], <<"c1">>),
        SynCommit(3, e[3], <<"c1", "c2">>)>> :
      e \in [1..3 -> Times] }

SynTieInit ==
    /\ pc = "syn_issues"
    /\ error = ""
    /\ commits \in TieCommitMaps
    /\ cycle_info = CycleInfo(commits, 1, Len(commits),
                              [n_snakemake_rules_added |-> 0,
                               n_snakemake_modules_added |-> 0])
    /\ issues = <<>> /\ comments = <<>> /\ events = <<>> /\ pullrequests = <<>>
    /\ resolved = <<>>
    /\ record_limit = MaxRecords + 1
    /\ local_utcoffset \in LocalUtcOffsets
    /\ syn = InitialSynLocals
    /\ result = <<>>
    /\ repo_info = <<>>
    /\ seg = NoLocals
    /\ run = 0
    /\ first_result = <<>>

SynTieSpec == SynTieInit /\ [][SynNext]_vars

(***************************************************************************)
(* Calls at the boundary of the inputs: the segmentation on any of its     *)
(* inputs (the empty repo_info and the empty commit map among them), and   *)
(* the synthesis from its first line on an empty commit map or an empty    *)
(* cycle_info                                                              *)
(***************************************************************************)
\* cycles of an earlier segmentation, passed without the commits
DetachedCycleInfos ==
    UNION { { [begin |-> [hash |-> "c1", epoch |-> b],
               end |-> [hash |-> "c2", epoch |-> e],
               n_snakemake_rules_added |-> 0,
               n_snakemake_modules_added |-> 0] : e \in b..MaxTime } :
            b \in Times }

SynBoundaryInit ==
    /\ pc = "syn_call"
    /\ error = ""
    /\ commits \in {<<>>} \cup SynCommitMaps
    /\ cycle_info \in IF commits = <<>> THEN {<<>>} \cup DetachedCycleInfos
                                         ELSE {<<>>}
    /\ issues = <<>> /\ comments = <<>> /\ events = <<>> /\ pullrequests = <<>>
    /\ resolved = <<>>
    /\ record_limit = MaxRecords
    /\ local_utcoffset \in LocalUtcOffsets
    /\ syn = NoLocals
    /\ result = <<>>
    /\ repo_info = <<>>
    /\ seg = NoLocals
    /\ run = 0
    /\ first_result = <<>>

\* lines 392-393 on a cycle_info without the key "begin"
SynRejected ==
    /\ pc = "syn_call"
    /\ cycle_info = <<>>
    /\ pc' = "syn_raised"
    /\ error' = "KeyError: 'begin'"
    /\ UNCHANGED <<commits, segVars, synVars>>

\* lines 392-398: the window is read and the locals are initialised; there
\* is no check of commits
SynStart ==
    /\ pc = "syn_call"
    /\ cycle_info # <<>>
    /\ syn' = InitialSynLocals
    /\ pc' = "syn_issues"
    /\ UNCHANGED <<error, commits, segVars, synArgs, issues, comments,
                   events, pullrequests, resolved, result>>

BoundaryInit == SegInit \/ SynBoundaryInit

BoundaryNext == SegNext \/ SynRejected \/ SynStart \/ SynNext

BoundarySpec == BoundaryInit /\ [][BoundaryNext]_vars

(***************************************************************************)
(* The commit order of both methods: a call of the segmentation, or a call *)
(* of the synthesis with empty issue, comment, event and pull-request      *)
(* lists                                                                   *)
(***************************************************************************)
SynEmptyListsInit ==
    /\ pc = "syn_issues"
    /\ error = ""
    /\ commits \in SynCommitMaps
    /\ cycle_info \in CycleInfos(commits)
    /\ issues = <<>> /\ comments = <<>> /\ events = <<>> /\ pullrequests = <<>>
    /\ resolved = <<>>
    /\ record_limit = 0
    /\ local_utcoffset \in LocalUtcOffsets
    /\ syn = InitialSynLocals
    /\ result = <<>>
    /\ repo_info = <<>>
    /\ seg = NoLocals
    /\ run = 0
    /\ first_result = <<>>

TimelineInit == SegInit \/ SynEmptyListsInit

TimelineNext == SegNext \/ ProcessCommits \/ ReturnSorted

TimelineSpec == TimelineInit /\ [][TimelineNext]_vars

(***************************************************************************)
(* Properties of the segmentation                                          *)
(***************************************************************************)
SegReturned == pc = "seg_done"

Cycles == repo_info["evolution_cycles"]

RECURSIVE SumSeq(_)
SumSeq(s) == IF s = <<>> THEN 0 ELSE Head(s) + SumSeq(Tail(s))

NCommitsOf(cycles) == SumSeq([k \in 1..Len(cycles) |-> cycles[k].n_commits])

\* C5 as claimed: for every accepted commit map the n_commits of the produced
\* cycles add up to the number of commits of the map
C5_SumIsTotal ==
    SegReturned => NCommitsOf(Cycles) = Len(commits)

\* C5 amended: the n_commits of the produced cycles add up to the number of
\* commits whenever the map has at least two commits (no boundary commit is
\* counted twice); a map of one commit produces no cycle, so the sum is 0
C5_SumIsTotalFromTwo ==
    SegReturned =>
        NCommitsOf(Cycles) = IF Len(commits) >= 2 THEN Len(commits) ELSE 0

\* two cycles that share a boundary commit have been produced
C5_Witness ==
    /\ SegReturned
    /\ Len(Cycles) >= 2
    /\ Cycles[1].end = Cycles[2].begin
    /\ Len(commits) >= 3

\* C9: no cycle of evolution_cycles has a begin or end epoch that is missing
\* (None or 0): a cycle that would have one is never appended, by a close
\* in the walk or by the trailing flush
C9_NoCycleWithoutEpoch ==
    "evolution_cycles" \in DOMAIN repo_info =>
        \A k \in 1..Len(Cycles) :
            Cycles[k].begin.epoch # 0 /\ Cycles[k].end.epoch # 0

\* what C10 compares: the markers, counts and totals of a cycle
CycleCore(c) ==
    [begin |-> c.begin, end |-> c.end, n_commits |-> c.n_commits,
     n_commits_snakemake_related |-> c.n_commits_snakemake_related,
     n_snakemake_rules_added |-> c.n_snakemake_rules_added,
     n_snakemake_rules_removed |-> c.n_snakemake_rules_removed,
     n_snakemake_modules_added |-> c.n_snakemake_modules_added,
     n_snakemake_modules_removed |-> c.n_snakemake_modules_removed]

CyclesCore(ri) ==
    [k \in 1..Len(ri["evolution_cycles"]) |-> CycleCore(ri["evolution_cycles"][k])]

\* C10: a second run of the segmentation on the same commit map, on the
\* repo_info the first run extended, yields the same list of cycles with the
\* same markers, counts and totals, and the same number of cycles
C10_Idempotent ==
    (SegReturned /\ run = 2) =>
        /\ CyclesCore(repo_info) = CyclesCore(first_result)
        /\ repo_info["n_evolution_cycles"] = first_result["n_evolution_cycles"]
        /\ repo_info["n_evolution_cycles"] = Len(Cycles)

\* the second run has returned and the first run had produced cycles
C10_Witness ==
    /\ SegReturned
    /\ run = 2
    /\ Len(first_result["evolution_cycles"]) >= 2


(***************************************************************************)
(* Properties of the synthesis                                             *)
(***************************************************************************)
SynReturned == pc = "syn_done"

\* C1: the returned log is sorted by time stamp: a.timestamp <= b.timestamp
\* for every pair of adjacent entries (a, b)
C1_Sorted ==
    SynReturned =>
        \A k \in 1..(Len(result) - 1) :
            StrLeq(result[k].timestamp, result[k + 1].timestamp)

\* a log of entries of several kinds has been returned in another order
\* than the one it was built in
C1_Witness ==
    /\ SynReturned
    /\ Len(result) >= 4
    /\ result # syn.event_logs
    /\ \E k \in 1..Len(result) : result[k].activity = "Pull Request Opened"
    /\ \E k \in 1..Len(result) :
          result[k].case_id[1] = "Issue" /\ result[k].activity = "Committed"

\* C2: a commit attributed to a pull request (marked consumed) has no
\* standalone entry with case_id Commit-<short-hash> in the same log
C2_ConsumedNotStandalone ==
    SynReturned =>
        \A k \in 1..Len(syn.commits_preprocessed) :
            \A m \in 1..Len(result) :
                result[m].case_id
                    # <<"Commit", ShortHash(syn.commits_preprocessed[k])>>

\* the pull request read as number k was not skipped for its created_at
PrRead(k) == str_to_datetime(pullrequests[k].created_at).kind = "datetime"

PrParents(k) == syn.commit_parents[pullrequests[k].merge_commit_sha]

PrHasMerge(k) ==
    /\ pullrequests[k].merge_commit_sha # ""
    /\ pullrequests[k].merge_commit_sha \in DOMAIN syn.commit_parents

\* its merge commit has two parents, both in the ordered timeline
TwoParentCase(k) ==
    /\ PrRead(k)
    /\ PrHasMerge(k)
    /\ Len(PrParents(k)) = 2
    /\ Contains(syn.commits_hashes, PrParents(k)[1])
    /\ Contains(syn.commits_hashes, PrParents(k)[2])

Min(a, b) == IF a <= b THEN a ELSE b
Max(a, b) == IF a <= b THEN b ELSE a

\* C3: for a merge commit with two parents at positions i < j of the ordered
\* timeline the commits attributed to the pull request are exactly those at
\* the positions i+1 .. j-1
C3_StrictlyBetween ==
    \A k \in 1..Len(pullrequests) :
        TwoParentCase(k) =>
            LET p == IndexOf(syn.commits_hashes, PrParents(k)[1])
                q == IndexOf(syn.commits_hashes, PrParents(k)[2])
            IN  ListOfSet(resolved[k])
                    = {syn.commits_hashes[x] : x \in (Min(p, q) + 1)..(Max(p, q) - 1)}

\* its merge commit has exactly one parent, which is in the commit map
OneParentCase(k) ==
    /\ PrHasMerge(k)
    /\ Len(PrParents(k)) = 1
    /\ HasCommit(PrParents(k)[1])

CommittedOf(k) ==
    {m \in 1..Len(result) :
        /\ result[m].case_id = <<"Issue", pullrequests[k].number>>
        /\ result[m].activity = "Committed"}

ExactlyTheParent(k) ==
    /\ Cardinality(CommittedOf(k)) = 1
    /\ \A m \in CommittedOf(k) :
          /\ result[m].timestamp
                = CommitOf(commits, PrParents(k)[1]).committer_date
          /\ result[m].user = pullrequests[k].user.login

\* C4 as claimed: for a pull request n by u whose merge commit has exactly one
\* parent A the log has exactly one Committed entry with case_id Issue-n,
\* with A's committer_date and user u
C4_OneParentOneEntry ==
    SynReturned =>
        \A k \in 1..Len(pullrequests) : OneParentCase(k) => ExactlyTheParent(k)

\* C4 amended: the same for a pull request whose created_at is present and
\* parses; a pull request without created_at is skipped as a whole
C4_OneParentOneEntryIfRead ==
    SynReturned =>
        \A k \in 1..Len(pullrequests) :
            (OneParentCase(k) /\ PrRead(k)) => ExactlyTheParent(k)

\* a log with the entry of the one parent of a pull request's merge commit
C4_Witness ==
    /\ SynReturned
    /\ \E k \in 1..Len(pullrequests) :
          OneParentCase(k) /\ PrRead(k) /\ resolved[k] = <<"c1">>

\* the instant a time stamp of the log denotes: a provider's string is UTC,
\* the string of epoch_to_str is local time, a committer_date carries its
\* UTC offset
Instant(ts) ==
    LET wall == (ts[1] - 48) * 10 + (ts[2] - 48)
    IN  IF ts[3] = 90 THEN wall
        ELSE IF Len(ts) = 3 THEN wall - local_utcoffset
        ELSE IF ts[4] = 43
             THEN wall - ((ts[5] - 48) * 10 + (ts[6] - 48))
             ELSE wall + ((ts[5] - 48) * 10 + (ts[6] - 48))

\* C6: every entry of the log carries a time stamp inside the cycle window
C6_EntriesInWindow ==
    SynReturned =>
        \A m \in 1..Len(result) : InWindow(Instant(result[m].timestamp))

\* C7: no exception escapes the call because a parent of a merge commit is
\* not in the commit map or in the ordered timeline
C7_AbsentParentSkipped ==
    error \notin {"KeyError: parent not in commits",
                  "ValueError: parent is not in list"}

\* C8: the call never fails because the created_at or closed_at of a record
\* cannot be parsed
C8_BadTimestampSkipped ==
    error # StrptimeError

(***************************************************************************)
(* Properties of the commit order                                          *)
(***************************************************************************)
\* the position of the key h in the iteration order of the commit map
PositionOf(h) == CHOOSE k \in 1..Len(commits) : commits[k].hash = h

\* order lists every key of the commit map once, by non-decreasing epoch,
\* keys of the same epoch in the iteration order of the map
OrderedStable(order) ==
    /\ Len(order) = Len(commits)
    /\ \A k \in 1..Len(commits) : Contains(order, commits[k].hash)
    /\ \A a \in 1..Len(order) : \A b \in (a + 1)..Len(order) :
          LET ea == CommitOf(commits, order[a]).committer_epoch
              eb == CommitOf(commits, order[b]).committer_epoch
          IN  /\ ea <= eb
              /\ ea = eb => PositionOf(order[a]) < PositionOf(order[b])

\* the synthesis has walked the commits
CommitsWalked == pc \in {"syn_prs", "syn_done", "syn_raised"} /\ syn.commits_hashes # <<>>

\* C11: the commit order of the segmentation (commit_hashes_sorted_by_epoch)
\* and of the synthesis (commits_hashes) has non-decreasing committer epochs,
\* and commits of equal epochs keep the iteration order of the commit map
C11_OrderStable ==
    /\ seg # NoLocals => OrderedStable(seg.commit_hashes_sorted_by_epoch)
    /\ CommitsWalked => OrderedStable(syn.commits_hashes)

\* the segmentation walks a map whose order had to change, with two commits
\* of the same epoch
C11_Witness ==
    /\ pc = "seg_walk"
    /\ Len(commits) = 3
    /\ commits[1].committer_epoch > commits[2].committer_epoch
    /\ commits[2].committer_epoch = commits[3].committer_epoch
    /\ seg.commit_hashes_sorted_by_epoch = <<"c2", "c3", "c1">>

(***************************************************************************)
(* Properties of the order of the log                                      *)
(***************************************************************************)
\* the input stream an entry of the log comes from: 1 issues, 2 comments,
\* 3 events, 4 commits, 5 pull requests
StreamOf(entry) ==
    IF entry.case_id[1] = "Commit" THEN 4
    ELSE IF entry.activity \in {"Issue Created", "Issue Closed"} THEN 1
    ELSE IF entry.activity = "Issue Commented" THEN 2
    ELSE IF entry.activity \in {"Pull Request Opened", "Committed"} THEN 5
    ELSE 3

RECURSIVE Concat(_)
Concat(ss) == IF ss = <<>> THEN <<>> ELSE Head(ss) \o Concat(Tail(ss))

\* the entries of the records read, stream after stream in the order
\* issues, comments, events, commits, pull requests, and within a stream
\* record after record in the order of the input
InStreamOrder ==
    Concat([k \in 1..Len(issues) |-> IssueBody(issues[k]).entries])
    \o Concat([k \in 1..Len(comments) |-> CommentBody(comments[k]).entries])
    \o Concat([k \in 1..Len(events) |-> EventBody(events[k]).entries])
    \o CommitLoop(InitialSynLocals, SortedByEpoch(commits)).event_logs
    \o Concat([k \in 1..Len(pullrequests) |->
                 PullRequestBody(pullrequests[k],
                                 [syn EXCEPT !.event_logs = <<>>]).syn.event_logs])

\* the entries of a log that carry the time stamp ts, in the log's order
TieGroup(logs, ts) ==
    LET SameTime(x) == x.timestamp = ts
    IN  SelectSeq(logs, SameTime)

\* C12: entries of the returned log with equal time stamps are in input
\* stream order (issues, comments, events, standalone commits, pull
\* requests), and within one stream in the order of the input records
C12_TiesInStreamOrder ==
    SynReturned =>
        /\ \A a \in 1..Len(result) : \A b \in (a + 1)..Len(result) :
              result[a].timestamp = result[b].timestamp
                  => StreamOf(result[a]) <= StreamOf(result[b])
        /\ LET expected == InStreamOrder
           IN  \A m \in 1..Len(result) :
                  TieGroup(result, result[m].timestamp)
                      = TieGroup(expected, result[m].timestamp)

\* a returned log that the sort rearranged, with two entries of different
\* streams and two different entries of the issue stream at one time stamp
C12_Witness ==
    /\ SynReturned
    /\ result # syn.event_logs
    /\ \E a \in 1..Len(result) : \E b \in (a + 1)..Len(result) :
          /\ result[a].timestamp = result[b].timestamp
          /\ StreamOf(result[a]) < StreamOf(result[b])
    /\ \E a \in 1..Len(result) : \E b \in (a + 1)..Len(result) :
          /\ result[a].timestamp = result[b].timestamp
          /\ StreamOf(result[a]) = 1 /\ StreamOf(result[b]) = 1
          /\ result[a] # result[b]

(***************************************************************************)
(* Properties of the issue stream                                          *)
(***************************************************************************)
\* the instant a provider's time stamp denotes: the string is UTC
UtcInstant(date_str) == str_to_datetime(date_str).wall

\* the activities of the entries with case_id Issue-n, in the log's order
ActivitiesOf(n) ==
    LET OnN(x) == x.case_id = <<"Issue", n>>
        on_n == SelectSeq(result, OnN)
    IN  [m \in 1..Len(on_n) |-> on_n[m].activity]

\* the issue read as number k is the only record on its number, and its
\* created_at and, if it has one, its closed_at are well formed
IssueAlone(k) ==
    /\ Len(issues) = 1 /\ comments = <<>> /\ events = <<>>
    /\ \A m \in 1..Len(pullrequests) : pullrequests[m].number # issues[k].number
    /\ str_to_datetime(issues[k].created_at).kind = "datetime"
    /\ str_to_datetime(issues[k].closed_at).kind # "ValueError"

\* C13: for an issue n without comments, events or pull requests the log
\* has, with case_id Issue-n, 'Issue Created' exactly if created_at is in
\* the window and after it 'Issue Closed' exactly if closed_at is in the
\* window
C13_IssueCreatedThenClosed ==
    SynReturned =>
        \A k \in 1..Len(issues) :
            IssueAlone(k) =>
                ActivitiesOf(issues[k].number)
                    = (IF InWindow(UtcInstant(issues[k].created_at))
                       THEN <<"Issue Created">> ELSE <<>>)
                      \o (IF /\ issues[k].closed_at # <<>>
                             /\ InWindow(UtcInstant(issues[k].closed_at))
                          THEN <<"Issue Closed">> ELSE <<>>)

\* the same on a machine whose local time zone is UTC
C13_OnUtcMachine == local_utcoffset = 0 => C13_IssueCreatedThenClosed

(***************************************************************************)
(* Properties of the cycles                                                *)
(***************************************************************************)
\* the ordered timeline: the keys of the commit map sorted by epoch, which
\* the walk keeps in commit_hashes_sorted_by_epoch
Timeline ==
    IF seg # NoLocals THEN seg.commit_hashes_sorted_by_epoch
    ELSE SortedByEpoch(commits)

\* the commit at position k of the ordered timeline
TimelineCommit(k) == CommitOf(commits, Timeline[k])

MarkerOf(commit) == [hash |-> commit.hash, epoch |-> commit.committer_epoch]

\* the four structural totals of a cycle, and the four counters of a commit
TotalsOf(c) ==
    <<c.n_snakemake_rules_added, c.n_snakemake_rules_removed,
      c.n_snakemake_modules_added, c.n_snakemake_modules_removed>>

CountersOf(commit) ==
    <<commit.snakemake_n_rules_added, commit.snakemake_n_rules_removed,
      commit.snakemake_n_modules_added, commit.snakemake_n_modules_removed>>

\* a timeline of two commits with non-zero epochs, the first without and
\* the second with a net structural change
TwoCommitsSecondChanges ==
    /\ Len(commits) = 2
    /\ TimelineCommit(1).committer_epoch # 0
    /\ TimelineCommit(2).committer_epoch # 0
    /\ added_or_removed(TimelineCommit(1)) = 0
    /\ added_or_removed(TimelineCommit(2)) # 0

\* C14: for a timeline of two commits C1, C2 with non-zero epochs, of which
\* only C2 has a net structural change, the segmentation produces exactly
\* one cycle: begin C1, end C2, n_commits 2, totals equal to C2's counters
C14_TwoCommitsOneCycle ==
    (SegReturned /\ TwoCommitsSecondChanges) =>
        /\ Len(Cycles) = 1
        /\ repo_info["n_evolution_cycles"] = 1
        /\ Cycles[1].begin = MarkerOf(TimelineCommit(1))
        /\ Cycles[1].end = MarkerOf(TimelineCommit(2))
        /\ Cycles[1].n_commits = 2
        /\ TotalsOf(Cycles[1]) = CountersOf(TimelineCommit(2))

\* the segmentation has returned for two commits a day apart of which the
\* second adds one rule
C14_Witness ==
    /\ SegReturned
    /\ TwoCommitsSecondChanges
    /\ TimelineCommit(2).committer_epoch
          - TimelineCommit(1).committer_epoch >= 24 * 3600
    /\ TimelineCommit(2).snakemake_n_rules_added = 1
    /\ TimelineCommit(2).snakemake_n_rules_removed = 0
    /\ Len(Cycles) = 1
    /\ Cycles[1].n_snakemake_rules_added = 1

\* every commit of the timeline but the last is followed by a commit whose
\* whole-day difference to it is 0
AllNextSameDay ==
    LET order == SortedByEpoch(commits)
    IN  \A k \in 1..(Len(commits) - 1) :
            CommitOf(commits, order[k + 1]).committer_epoch
                - CommitOf(commits, order[k]).committer_epoch < 24 * 3600

\* C15: if every commit but the last is followed by a commit less than a
\* day later, evolution_cycles holds at most one cycle, whatever the
\* structural counters of the commits are
C15_SameDayAtMostOneCycle ==
    ("evolution_cycles" \in DOMAIN repo_info /\ Len(Cycles) > 1) =>
        ~AllNextSameDay

\* the segmentation has returned one cycle for three commits, each less
\* than a day after the one before, the last a day or more after the first,
\* the second and the third with a net structural change
C15_Witness ==
    /\ SegReturned
    /\ Len(commits) = 3
    /\ AllNextSameDay
    /\ TimelineCommit(3).committer_epoch
          - TimelineCommit(1).committer_epoch >= 24 * 3600
    /\ added_or_removed(TimelineCommit(2)) # 0
    /\ added_or_removed(TimelineCommit(3)) # 0
    /\ Len(Cycles) = 1

\* C16: every cycle of evolution_cycles, closed or trailing, ends at an
\* epoch that is not before the epoch it begins at, and at another commit
\* than the one it begins at
C16_EndAfterBegin ==
    "evolution_cycles" \in DOMAIN repo_info =>
        \A k \in 1..Len(Cycles) :
            /\ Cycles[k].end.epoch >= Cycles[k].begin.epoch
            /\ Cycles[k].begin.hash # Cycles[k].end.hash

\* the segmentation has returned a closed cycle whose two commits have the
\* same epoch and, after it, a trailing cycle that ends at the last commit
C16_Witness ==
    /\ SegReturned
    /\ Len(commits) = 3
    /\ Len(Cycles) = 2
    /\ Cycles[1].begin.epoch = Cycles[1].end.epoch
    /\ added_or_removed(TimelineCommit(3)) = 0
    /\ Cycles[2].begin = Cycles[1].end
    /\ Cycles[2].end = MarkerOf(TimelineCommit(3))

(***************************************************************************)
(* Properties of the commit entries                                        *)
(***************************************************************************)
\* the cycle passed in recorded an added rule or an added module
CycleAddedSnakemake ==
    \/ cycle_info.n_snakemake_rules_added > 0
    \/ cycle_info.n_snakemake_modules_added > 0

\* C17: every standalone commit entry (case_id Commit-<short-hash>) of the
\* log has the activity 'Committed-Snakemake' if the cycle passed in has
\* n_snakemake_rules_added > 0 or n_snakemake_modules_added > 0 and
\* 'Committed' otherwise; every commit attributed to a pull request has an
\* entry with the activity 'Committed', and no entry with a case_id Issue-n
\* has the activity 'Committed-Snakemake'
C17_CommitActivity ==
    SynReturned =>
        /\ \A m \in 1..Len(result) :
              IF result[m].case_id[1] = "Commit"
              THEN result[m].activity
                      = IF CycleAddedSnakemake
                        THEN "Committed-Snakemake" ELSE "Committed"
              ELSE result[m].activity # "Committed-Snakemake"
        /\ \A k \in 1..Len(pullrequests) : \A x \in 1..Len(resolved[k]) :
              \E m \in 1..Len(result) :
                  /\ result[m].case_id = <<"Issue", pullrequests[k].number>>
                  /\ result[m].activity = "Committed"
                  /\ result[m].timestamp
                        = CommitOf(commits, resolved[k][x]).committer_date

\* a log of a cycle that recorded an added module and no added rule, with
\* a standalone commit entry and a commit attributed to a pull request
C17_Witness ==
    /\ SynReturned
    /\ cycle_info.n_snakemake_rules_added = 0
    /\ cycle_info.n_snakemake_modules_added > 0
    /\ \E m \in 1..Len(result) : result[m].case_id[1] = "Commit"
    /\ \E k \in 1..Len(pullrequests) : resolved[k] # <<>>

(***************************************************************************)
(* Properties of the pull-request stream                                   *)
(***************************************************************************)
\* the pull request read as number k has no merge_commit_sha, or one that
\* names no commit of the commit map, and a created_at that is missing or
\* well formed
NoMergeCommit(k) ==
    /\ pullrequests[k].merge_commit_sha = ""
          \/ ~HasCommit(pullrequests[k].merge_commit_sha)
    /\ str_to_datetime(pullrequests[k].created_at).kind # "ValueError"

\* the entries the call has appended for the pull request read as number k
EntriesOfPr(k, activity) ==
    {m \in 1..Len(syn.event_logs) :
        /\ syn.event_logs[m].case_id = <<"Issue", pullrequests[k].number>>
        /\ syn.event_logs[m].activity = activity}

\* no commit is attributed to it and its iteration raises nothing
NoAttribution(k) ==
    /\ resolved[k] = <<>>
    /\ EntriesOfPr(k, "Committed") = {}
    /\ k = Len(pullrequests) => error = ""

\* C18: a pull request whose merge_commit_sha is empty, absent or names no
\* commit of the map contributes no 'Committed' entry and raises no error,
\* and it contributes 'Pull Request Opened' when its created_at lies in the
\* cycle window
C18_NoMergeStillOpened ==
    \A k \in 1..Len(pullrequests) :
        NoMergeCommit(k) =>
            /\ NoAttribution(k)
            /\ ( /\ pullrequests[k].created_at # <<>>
                 /\ InWindow(UtcInstant(pullrequests[k].created_at)) )
               => EntriesOfPr(k, "Pull Request Opened") # {}

\* the part of C18 on the attribution alone
C18_NoMergeNoAttribution ==
    \A k \in 1..Len(pullrequests) : NoMergeCommit(k) => NoAttribution(k)

\* C18 on a machine whose local time zone is UTC
C18_OnUtcMachine == local_utcoffset = 0 => C18_NoMergeStillOpened

(***************************************************************************)
(* Properties of the preconditions                                         *)
(***************************************************************************)
\* a call of the segmentation has got past its first lines
SegEntered == pc \in {"seg_walk", "seg_done", "seg_raised"}

\* a call of the synthesis has got past its first lines
SynEntered ==
    pc \in {"syn_issues", "syn_comments", "syn_events", "syn_prs",
            "syn_done", "syn_raised"}

\* C19: an empty commit map or an empty cycle window is rejected before
\* any processing: the segmentation raises and leaves repo_info as it was,
\* the synthesis raises and returns no log
C19_EmptyInputRejected ==
    /\ (SegEntered /\ commits = <<>>) =>
          /\ pc = "seg_raised"
          /\ repo_info \in RepoInfos
    /\ (SynEntered /\ (commits = <<>> \/ cycle_info = <<>>)) =>
          /\ pc = "syn_raised"
          /\ syn = NoLocals
          /\ result = <<>>

\* the part of C19 on the segmentation and on the empty cycle_info
C19_RejectedButEmptyCommitsOfSynthesis ==
    /\ (SegEntered /\ commits = <<>>) =>
          /\ pc = "seg_raised"
          /\ repo_info \in RepoInfos
    /\ (SynEntered /\ cycle_info = <<>>) =>
          /\ pc = "syn_raised"
          /\ syn = NoLocals
          /\ result = <<>>

(***************************************************************************)
(* Properties of the totals                                                *)
(***************************************************************************)
\* the commits in the range of a cycle: after its begin commit up to and
\* including its end commit, as positions of the ordered timeline
RangeOf(c) ==
    (IndexOf(Timeline, c.begin.hash) + 1)..IndexOf(Timeline, c.end.hash)

\* the sums of the four counters over the commits at the positions ks
SumCounters(ks) ==
    LET Sum(f) == SumSeq([k \in 1..Len(commits) |->
                            IF k \in ks THEN CountersOf(TimelineCommit(k))[f]
                            ELSE 0])
    IN  <<Sum(1), Sum(2), Sum(3), Sum(4)>>

\* the extensions of the files the commits at the positions ks touched
ExtensionsOf(ks) ==
    UNION { ListOfSet(TimelineCommit(k).file_extensions) : k \in ks }

\* C20: the four structural totals of every produced cycle are the sums of
\* the counters of all commits in its range, and its file_extensions is the
\* union of the extensions those commits touched
C20_TotalsOverRange ==
    SegReturned =>
        \A k \in 1..Len(Cycles) :
            /\ TotalsOf(Cycles[k]) = SumCounters(RangeOf(Cycles[k]))
            /\ Cycles[k].file_extensions = ExtensionsOf(RangeOf(Cycles[k]))

(***************************************************************************)
(* Properties of the close                                                 *)
(***************************************************************************)
\* while the walk runs evolution_cycles holds closed cycles only: the
\* trailing cycle is appended after the loop
Walking == pc = "seg_walk"

\* the position of a marker's commit in the ordered timeline
TimelinePosition(marker) == IndexOf(Timeline, marker.hash)

\* the commit at position k is followed by a commit whose whole-day
\* difference to it is 0
FollowedSameDay(k) ==
    /\ k < Len(commits)
    /\ convert_seconds(TimelineCommit(k + 1).committer_epoch
                       - TimelineCommit(k).committer_epoch, "d") = 0

\* C21: the end commit of every closed cycle has a structural counter of
\* its own that is not 0, and is not followed in the timeline by a commit
\* whose whole-day difference to it is 0
C21_ClosedByChange ==
    Walking =>
        \A k \in 1..Len(Cycles) :
            LET p == TimelinePosition(Cycles[k].end)
            IN  /\ CountersOf(TimelineCommit(p)) # <<0, 0, 0, 0>>
                /\ ~FollowedSameDay(p)

\* the part of C21 on the next commit
C21_ClosedNotFollowedSameDay ==
    Walking =>
        \A k \in 1..Len(Cycles) :
            ~FollowedSameDay(TimelinePosition(Cycles[k].end))

\* the commit at position p ends a run of commits, each followed by the
\* next with a whole-day difference of 0, that starts after position b at a
\* commit with a net structural change (the run may be that commit alone)
ClosesRunOfChange(b, p) ==
    \E j \in (b + 1)..p :
        /\ added_or_removed(TimelineCommit(j)) # 0
        /\ \A i \in j..(p - 1) : FollowedSameDay(i)

\* C21 amended: the end commit of every closed cycle has a net structural
\* change of its own or is reached by same-day deferrals from a commit of
\* the cycle that has one, and is not followed in the timeline by a commit
\* whose whole-day difference to it is 0
C21_ClosedByChangeOrDeferral ==
    Walking =>
        \A k \in 1..Len(Cycles) :
            LET p == TimelinePosition(Cycles[k].end)
            IN  /\ ClosesRunOfChange(TimelinePosition(Cycles[k].begin), p)
                /\ ~FollowedSameDay(p)

\* a cycle has been closed at a commit without structural change, after a
\* deferral
C21_Witness ==
    /\ Walking
    /\ \E k \in 1..Len(Cycles) :
          LET p == TimelinePosition(Cycles[k].end)
          IN  /\ CountersOf(TimelineCommit(p)) = <<0, 0, 0, 0>>
              /\ FollowedSameDay(p - 1)

(***************************************************************************)
(* Properties of the close condition                                       *)
(***************************************************************************)
\* the walk is at a commit after the first
AtLaterCommit == InLoop /\ seg.cycle_begin # <<>>

\* the running commit alone has a net change of rules or of modules
Changed ==
    \/ CurCommit.snakemake_n_rules_added
          - CurCommit.snakemake_n_rules_removed # 0
    \/ CurCommit.snakemake_n_modules_added
          - CurCommit.snakemake_n_modules_removed # 0

\* a same-day deferral is pending from the commit before
Pending == seg.is_last_commit_of_the_day

\* the step closed a cycle, deferred the close or failed on the epochs
WasConsidered ==
    \/ Len(repo_info'["evolution_cycles"]) > Len(Cycles)
    \/ seg'.is_last_commit_of_the_day
    \/ pc' = "seg_raised"

\* C22: the step of a commit after the first closes, defers or checks the
\* epochs exactly when the commit alone has a net change of rules or of
\* modules or a same-day deferral is pending; so a commit whose additions
\* and removals cancel does none of these when no deferral is pending
C22_ConsideredIffChangedOrPending ==
    [][AtLaterCommit => (WasConsidered <=> (Changed \/ Pending))]_vars

\* the walk has passed a second commit that adds and removes one rule: no
\* cycle is closed and no deferral pending
C22_Witness ==
    /\ Walking
    /\ seg.i_commit = 3
    /\ TimelineCommit(2).snakemake_n_rules_added = 1
    /\ TimelineCommit(2).snakemake_n_rules_removed = 1
    /\ Len(Cycles) = 0
    /\ ~seg.is_last_commit_of_the_day

(***************************************************************************)
(* Properties of the same-day buffers                                      *)
(***************************************************************************)
\* the first commit after position b with a net structural change: the walk
\* passes the commits before it, and from it on every commit up to the
\* close is considered, so the commits from it to the one before the
\* closing commit are the deferred ones
FirstChanged(b, p) ==
    CHOOSE j \in (b + 1)..p :
        /\ added_or_removed(TimelineCommit(j)) # 0
        /\ \A i \in (b + 1)..(j - 1) : added_or_removed(TimelineCommit(i)) = 0

\* the closed cycle c was closed after at least one deferral
ClosedAfterDeferral(c) ==
    FirstChanged(TimelinePosition(c.begin), TimelinePosition(c.end))
        < TimelinePosition(c.end)

\* the deferred commits of c and its closing commit
DeferredAndClosing(c) ==
    FirstChanged(TimelinePosition(c.begin), TimelinePosition(c.end))
        ..TimelinePosition(c.end)

\* C23: the totals of a cycle closed after same-day deferrals are the
\* counters of the closing commit plus the sums of the counters of the
\* commits deferred since the close before, and its file_extensions is the
\* union of the extensions of the closing and of the deferred commits
C23_DeferredFolded ==
    Walking =>
        \A k \in 1..Len(Cycles) :
            ClosedAfterDeferral(Cycles[k]) =>
                /\ TotalsOf(Cycles[k]) = SumCounters(DeferredAndClosing(Cycles[k]))
                /\ Cycles[k].file_extensions
                      = ExtensionsOf(DeferredAndClosing(Cycles[k]))

\* a cycle closed after a deferral in which the deferred commit and the
\* closing commit both carry counters and extensions
C23_Witness ==
    /\ Walking
    /\ \E k \in 1..Len(Cycles) :
          /\ ClosedAfterDeferral(Cycles[k])
          /\ Cycles[k].n_snakemake_rules_added >= 2
          /\ Cardinality(Cycles[k].file_extensions) >= 2

(***************************************************************************)
(* Properties of the range of a merge commit                               *)
(***************************************************************************)
\* the locals, had the merge commit of the pull request read as number k
\* listed its two parents in the other order
ParentsSwapped(k) ==
    [syn EXCEPT !.commit_parents =
        Put(@, pullrequests[k].merge_commit_sha,
            <<PrParents(k)[2], PrParents(k)[1]>>)]

\* C24: the set of commits attributed for a merge commit with two parents
\* is the same when the two parents are listed in the other order
C24_ParentOrderIrrelevant ==
    \A k \in 1..Len(pullrequests) :
        TwoParentCase(k) =>
            /\ resolved[k] = Resolve(pullrequests[k], syn).attributed
            /\ ListOfSet(resolved[k])
                  = ListOfSet(Resolve(pullrequests[k],
                                      ParentsSwapped(k)).attributed)


\* C25: the synthesized log is in chronological order: for any entry placed
\* before another, the instant its timestamp denotes is not later than the
\* instant the other one denotes, also across entries of different kinds
\* (provider records ending in 'Z', standalone commits formatted by
\* epoch_to_str, attributed commits carrying committer_date with its offset).
C25_Chronological ==
    SynReturned =>
        \A a \in 1..Len(result) : \A b \in 1..Len(result) :
            a < b => Instant(result[a].timestamp) <= Instant(result[b].timestamp)

(***************************************************************************)
(* Properties of the reset                                                 *)
(***************************************************************************)
\* the step before closed a cycle: only then are the two markers equal
JustClosed == seg.cycle_begin # <<>> /\ seg.cycle_begin = seg.cycle_end

\* every accumulator of the walk is at its initial value
AccumulatorsReset ==
    /\ seg.cycle_n_commits = 0
    /\ seg.cycle_n_commits_snakemake_related = 0
    /\ seg.cycle_n_snakemake_rules_added = 0
    /\ seg.cycle_n_snakemake_rules_removed = 0
    /\ seg.cycle_n_snakemake_modules_added = 0
    /\ seg.cycle_n_snakemake_modules_removed = 0
    /\ seg.cycle_n_snakemake_rules_added_on_the_day = 0
    /\ seg.cycle_n_snakemake_rules_removed_on_the_day = 0
    /\ seg.cycle_n_snakemake_modules_added_on_the_day = 0
    /\ seg.cycle_n_snakemake_modules_removed_on_the_day = 0
    /\ ~seg.is_last_commit_of_the_day
    /\ seg.file_extensions = <<>>

\* the values of the closed cycle c computed from the commits after its
\* begin marker alone
FromOwnRange(c) ==
    /\ c.n_commits = Cardinality(RangeOf(c))
    /\ c.n_commits_snakemake_related
          = Cardinality({k \in RangeOf(c) : TimelineCommit(k).snakemake_related})
    /\ TotalsOf(c) = SumCounters(DeferredAndClosing(c))
    /\ c.file_extensions = ExtensionsOf(DeferredAndClosing(c))

\* C26: when a cycle is closed every accumulator is reset (commit count,
\* snakemake-related count, the four totals, the four same-day buffers, the
\* deferral flag, the file-extension list), so the values recorded for any
\* later cycle depend only on commits that come after the closed cycle's end
\* commit in the timeline
C26_ResetAtClose ==
    Walking =>
        /\ JustClosed => AccumulatorsReset
        /\ \A k \in 2..Len(Cycles) : FromOwnRange(Cycles[k])

\* a second cycle has just been closed after a first one with totals that
\* are not 0
C26_Witness ==
    /\ Walking
    /\ JustClosed
    /\ Len(Cycles) = 2
    /\ TotalsOf(Cycles[1]) # <<0, 0, 0, 0>>
    /\ Cycles[1].file_extensions # {}

(***************************************************************************)
(* Both methods on their inputs: a call of the segmentation, or a call of  *)
(* the synthesis on a machine whose time zone is UTC                       *)
(***************************************************************************)
SynUtcInit == SynInit /\ local_utcoffset = 0

FrameInit == SegInit \/ SynUtcInit

FrameNext == SegNext \/ SynNext

FrameSpec == FrameInit /\ [][FrameNext]_vars

\* the records of the list before are the first records of the list after:
\* the step may read one more record, it changes none
RecordsKept(before, after) ==
    /\ Len(after) >= Len(before)
    /\ SubSeq(after, 1, Len(before)) = before

\* the fields extend_repo_info_for_snakemake stores its result in
ResultFields ==
    {"n_commits_snakemake_related", "n_evolution_cycles", "evolution_cycles"}

\* the two values of repo_info differ in the result fields at most
OnlyResultFieldsWritten(before, after) ==
    /\ (DOMAIN before) \ ResultFields = (DOMAIN after) \ ResultFields
    /\ \A key \in (DOMAIN before) \ ResultFields : after[key] = before[key]

\* C27: synthesis and segmentation are pure with respect to their inputs:
\* no step of generate_event_logs_for_evolution_cycle changes the cycle
\* descriptor, the commit map or a record of the issue, comment, event and
\* pull-request lists, and no step of extend_repo_info_for_snakemake changes
\* the commit map or a field of repo_info other than
\* n_commits_snakemake_related, n_evolution_cycles and evolution_cycles
C27_InputsUnchanged ==
    [][ /\ commits' = commits
        /\ cycle_info' = cycle_info
        /\ RecordsKept(issues, issues')
        /\ RecordsKept(comments, comments')
        /\ RecordsKept(events, events')
        /\ RecordsKept(pullrequests, pullrequests')
        /\ OnlyResultFieldsWritten(repo_info, repo_info') ]_vars

\* the segmentation has returned a repo_info with its own field and with a
\* cycle, on its second call
C27_Witness ==
    /\ SegReturned
    /\ run = 2
    /\ "full_name" \in DOMAIN repo_info
    /\ Len(Cycles) > 0

(***************************************************************************)
(* Properties of the trailing cycle                                        *)
(***************************************************************************)
\* the walk is at the last commit of the timeline
AtLastCommit == InLoop /\ seg.i_commit = Len(seg.commit_hashes_sorted_by_epoch)

\* the step appends a cycle to evolution_cycles
CycleAppended == Len(repo_info'["evolution_cycles"]) > Len(Cycles)

\* the step after the loop appends the trailing cycle
TrailingFlushed == AfterLoop /\ CycleAppended

\* the cycle the step appended
AppendedCycle == repo_info'["evolution_cycles"][Len(Cycles) + 1]

\* C28: a same-day deferral is never pending when the walk ends (a last
\* commit reached with a deferral pending closes a cycle, unless the call
\* fails on the epochs), so the trailing cycle is flushed only when the last
\* commit did not close a cycle, and it records 0 for all four structural
\* totals and an empty file_extensions list, whatever the counters and
\* extensions of the commits in its range
C28_TrailingCycleEmpty ==
    [][ /\ AfterLoop => ~seg.is_last_commit_of_the_day
        /\ (AtLastCommit /\ seg.is_last_commit_of_the_day)
              => (CycleAppended \/ pc' = "seg_raised")
        /\ TrailingFlushed =>
              /\ ~JustClosed
              /\ TotalsOf(AppendedCycle) = <<0, 0, 0, 0>>
              /\ AppendedCycle.file_extensions = {} ]_vars

\* the trailing cycle has been flushed over a range with a commit that has
\* counters other than 0 and touched files
C28_Witness ==
    /\ SegReturned
    /\ HasLeftover(seg)
    /\ \E k \in RangeOf(Cycles[Len(Cycles)]) :
          /\ CountersOf(TimelineCommit(k)) # <<0, 0, 0, 0>>
          /\ TimelineCommit(k).file_extensions # <<>>

(***************************************************************************)
(* Properties of the chain of cycles                                       *)
(***************************************************************************)
\* C29: the produced cycles form a contiguous chain over the timeline: the
\* first cycle begins at the earliest commit, each later cycle's begin
\* marker equals the previous cycle's end marker, end positions strictly
\* increase, and n_evolution_cycles equals the length of evolution_cycles
C29_ContiguousChain ==
    (Walking \/ SegReturned) =>
        /\ repo_info["n_evolution_cycles"] = Len(Cycles)
        /\ Len(Cycles) > 0 => Cycles[1].begin = MarkerOf(TimelineCommit(1))
        /\ \A k \in 2..Len(Cycles) :
              /\ Cycles[k].begin = Cycles[k - 1].end
              /\ TimelinePosition(Cycles[k].end)
                    > TimelinePosition(Cycles[k - 1].end)
        /\ \A k \in 1..Len(Cycles) :
              TimelinePosition(Cycles[k].end) > TimelinePosition(Cycles[k].begin)

\* the call has returned two cycles, the second one the trailing cycle
C29_Witness ==
    /\ SegReturned
    /\ Len(Cycles) = 2
    /\ HasLeftover(seg)

(***************************************************************************)
(* The synthesis for two adjacent cycles of one commit map: a chain of     *)
(* four commits, empty issue, comment, event and pull-request lists; the   *)
(* second call is made for a cycle that begins where the first one ended   *)
(***************************************************************************)
AdjacentTimes == 0..(MaxTime + 1)

\* c1 is the root and every later commit the child of the one before
AdjacentCommitMaps ==
    { <<SynCommit(1, e[1], <<>>), SynCommit(2, e[2], <<"c1">>),
        SynCommit(3, e[3], <<"c2">>),
        [SynCommit(3, e[4], <<"c3">>) EXCEPT !.hash = "c4"]>> :
      e \in [1..4 -> AdjacentTimes] }

\* the cycles of the map that are not the last: they end before the last
\* commit of the timeline
NotLastCycleInfos(cs) ==
    UNION { { CycleInfo(cs, i, j, c) : j \in (i + 1)..(Len(cs) - 1),
                                      c \in CycleCounters } :
            i \in 1..Len(cs) }

\* the cycles that begin at the end marker of the cycle c
CyclesAfter(cs, c) ==
    LET j == IndexOf(SortedByEpoch(cs), c.end.hash)
    IN  { CycleInfo(cs, j, k, d) : k \in (j + 1)..Len(cs), d \in CycleCounters }

SynAdjacentInit ==
    /\ pc = "syn_issues"
    /\ error = ""
    /\ commits \in AdjacentCommitMaps
    /\ cycle_info \in NotLastCycleInfos(commits)
    /\ issues = <<>> /\ comments = <<>> /\ events = <<>> /\ pullrequests = <<>>
    /\ resolved = <<>>
    /\ record_limit = 0
    /\ local_utcoffset \in LocalUtcOffsets
    /\ syn = InitialSynLocals
    /\ result = <<>>
    /\ repo_info = <<>>
    /\ seg = NoLocals
    /\ run = 1
    /\ first_result = <<>>

\* the caller keeps the log of the cycle and calls the synthesis for the
\* next cycle, with the same commit map
SynNextCycle ==
    /\ pc = "syn_done"
    /\ run = 1
    /\ run' = 2
    /\ first_result' = [cycle_info |-> cycle_info, event_logs |-> result]
    /\ cycle_info' \in CyclesAfter(commits, cycle_info)
    /\ syn' = InitialSynLocals
    /\ result' = <<>>
    /\ pc' = "syn_issues"
    /\ UNCHANGED <<error, commits, repo_info, seg, record_limit,
                   local_utcoffset, issues, comments, events, pullrequests,
                   resolved>>

AdjacentNext == ProcessCommits \/ ReturnSorted \/ SynNextCycle

AdjacentSpec == SynAdjacentInit /\ [][AdjacentNext]_vars

\* the log has a standalone entry of the commit h
HasStandalone(log, h) ==
    \E m \in 1..Len(log) : log[m].case_id = <<"Commit", ShortHash(h)>>

\* the epoch is strictly inside the window of the cycle c
StrictlyInside(c, epoch) == c.begin.epoch < epoch /\ epoch < c.end.epoch

\* both calls have returned
BothReturned == SynReturned /\ run = 2

====
